---- MODULE Spec2Model ----
(***************************************************************************)
(* Model of internal/downloader/downloader.go: the secure download         *)
(* dispatcher.  Download classifies the source URL with isSecure, selects  *)
(* one engine (go-gather when USEGOGATHER is set, else the downloadImpl    *)
(* carried by the context, else conftest's downloader behind dlMutex),     *)
(* invokes it once and returns its result.                                 *)
(*                                                                         *)
(* Strings that the code inspects or builds (URLs, directories, error      *)
(* texts) are sequences of one-character strings.  showMsg only prints and *)
(* changes no state, so it is not carried.                                 *)
(***************************************************************************)
EXTENDS Integers, Sequences, FiniteSets, TLC

\* ------------------------------------------------------------ bounds
\* Number of goroutines that call Download concurrently.
NumCallers == 2
\* Longest wrapper prefix of the URLs fed to the classifier.
MaxRun == 2

Callers == 1..NumCallers

\* ------------------------------------------------------------ values
Nil == "nil"
NilErr == <<>>
EngineErr == <<"expected error">>
Meta == "metadata"

\* type key int; const downloadImplKey key = 0
downloadImplKey == 0

\* The mock of the test file, the only downloadImpl of the repository.
mockDownloader == "mockDownloader"

\* context.TODO(): no value under any key.
ContextTODO == [k \in {downloadImplKey} |-> Nil]

\* WithDownloadImpl replaces the downloadImpl implementation used
WithDownloadImpl(ctx, d) == [ctx EXCEPT ![downloadImplKey] = d]

\* ------------------------------------------------------------ isSecure
Lower == {"a","b","c","d","e","f","g","h","i","j","k","l","m",
          "n","o","p","q","r","s","t","u","v","w","x","y","z"}
Upper == {"A","B","C","D","E","F","G","H","I","J","K","L","M",
          "N","O","P","Q","R","S","T","U","V","W","X","Y","Z"}
Digit == {"0","1","2","3","4","5","6","7","8","9"}

\* The character class [A-Za-z0-9] of the pattern.
AlnumClass == Lower \cup Upper \cup Digit

HttpPrefix == <<"h","t","t","p",":">>
WrappedHttp == <<":",":","h","t","t","p",":">>

\* strings.HasPrefix(s, prefix)
HasPrefix(s, prefix) ==
    /\ Len(s) >= Len(prefix)
    /\ SubSeq(s, 1, Len(prefix)) = prefix

\* The literal `lit` stands in s at position i.
LiteralAt(s, i, lit) ==
    /\ Len(s) >= i + Len(lit) - 1
    /\ SubSeq(s, i, i + Len(lit) - 1) = lit

\* Variant: the pattern written with + instead of *, so that at least one
\* class character must precede the literal.
PlusThenLiteral(s, i) ==
    \E k \in i..Len(s) :
        /\ \A j \in i..k : s[j] \in AlnumClass
        /\ LiteralAt(s, k + 1, WrappedHttp)

\* [A-Za-z0-9]*::http: from position i: the star takes zero or more class
\* characters, then the literal must follow.
RECURSIVE StarThenLiteral(_, _)
StarThenLiteral(s, i) ==
    \/ LiteralAt(s, i, WrappedHttp)
    \/ /\ i <= Len(s)
       /\ s[i] \in AlnumClass
       /\ StarThenLiteral(s, i + 1)

\* var insecure = regexp.MustCompile("^[A-Za-z0-9]*::http:"); MatchString,
\* anchored at the start of the string only.
insecureMatchString(s) == StarThenLiteral(s, 1)

isSecure(u) == ~HasPrefix(u, HttpPrefix) /\ ~insecureMatchString(u)

\* fmt.Errorf("attempting to download from insecure source: %s", sourceUrl)
InsecureErrorf(sourceUrl) ==
    <<"attempting to download from insecure source: ">> \o sourceUrl

\* ------------------------------------------------------------ inputs
\* Source URLs of the concurrent callers.
UrlHttp == <<"h","t","t","p",":","/">>
UrlHttps == <<"h","t","t","p","s",":">>
UrlGitHttp == <<"g",":",":","h","t","t","p",":">>
SourceUrls == {UrlHttp, UrlHttps, UrlGitHttp}

DestDirs == {<<"d","i","r">>}

\* Contexts a caller passes: bare, or carrying the mock.
Contexts == {ContextTODO, WithDownloadImpl(ContextTODO, mockDownloader)}

\* Values of the USEGOGATHER environment variable ("" is unset).
EnvValues == {"", "1"}

\* URLs fed to the classifier: wrapper run, separator, scheme word, tail.
RunChars == {"g", "3", "H", "/"}
RECURSIVE SeqsUpTo(_, _)
SeqsUpTo(S, n) ==
    IF n = 0 THEN {<<>>}
    ELSE LET shorter == SeqsUpTo(S, n - 1)
         IN shorter \cup {Append(r, c) : r \in shorter, c \in S}
Separators == {<<>>, <<":">>, <<":",":">>, <<":",":",":">>}
UrlOci == <<"o","c","i",":",":","r">>
SchemeWords == {<<>>, HttpPrefix, UrlHttps, <<"H","T","T","P",":">>,
                <<"h","t","t","p">>, <<"h","t","p",":">>, <<"s","s","h",":">>,
                UrlOci}
Tails == {<<>>, <<"/","/","x">>}
ClassifierUrls ==
    {r \o s \o w \o t : r \in SeqsUpTo(RunChars, MaxRun), s \in Separators,
                        w \in SchemeWords, t \in Tails}

\* ------------------------------------------------------------ state
VARIABLES
    pc,        \* each caller's position in Download
    sourceUrl, \* Download's parameter
    destDir,   \* Download's parameter
    ctx,       \* Download's parameter
    dl,        \* the engine the closure dl is bound to
    out,       \* what the engine invocation produced
    ret,       \* what Download returned
    log,       \* per call: the lock operations and engine invocations made
    dlMutex,   \* 0 when unlocked, else the caller that locked it
    env,       \* the USEGOGATHER environment variable
    curl,      \* classifier run: the URL
    verdict    \* classifier run: "none" or the result of isSecure

vars == <<pc, sourceUrl, destDir, ctx, dl, out, ret, log, dlMutex, env, curl, verdict>>
callVars == <<pc, sourceUrl, destDir, ctx, dl, out, ret, log, dlMutex, env>>

NoOut == [m |-> Nil, err |-> NilErr, panic |-> FALSE]
NoRet == [m |-> Nil, err |-> NilErr]

\* utils.UseGoGather(): the process-wide alternate-engine switch.
UseGoGather == env = "1"

Init ==
    /\ pc = [p \in Callers |-> "idle"]
    /\ sourceUrl = [p \in Callers |-> <<>>]
    /\ destDir = [p \in Callers |-> <<>>]
    /\ ctx = [p \in Callers |-> ContextTODO]
    /\ dl = [p \in Callers |-> "none"]
    /\ out = [p \in Callers |-> NoOut]
    /\ ret = [p \in Callers |-> NoRet]
    /\ log = [p \in Callers |-> <<>>]
    /\ dlMutex = 0
    /\ env = ""
    /\ curl = <<>>
    /\ verdict = "none"

\* ------------------------------------------------------------ Download
\* Variant: only the plain http: prefix is rejected.
RejectedPlainHttpOnly(u) == HasPrefix(u, HttpPrefix)

\* Line 58: if !isSecure(sourceUrl)
Rejected(u) == ~isSecure(u)

\* Lines 57-66: entry.  An insecure source returns at once.
Download(p, c, dir, u) ==
    /\ pc[p] = "idle"
    /\ sourceUrl' = [sourceUrl EXCEPT ![p] = u]
    /\ destDir' = [destDir EXCEPT ![p] = dir]
    /\ ctx' = [ctx EXCEPT ![p] = c]
    /\ IF Rejected(u)
       THEN /\ ret' = [ret EXCEPT ![p] = [m |-> Nil, err |-> InsecureErrorf(u)]]
            /\ pc' = [pc EXCEPT ![p] = "done"]
       ELSE /\ ret' = ret
            /\ pc' = [pc EXCEPT ![p] = "select"]
    /\ UNCHANGED <<dl, out, log, dlMutex, env, curl, verdict>>

\* Variant: the context's override is looked at before the switch.
SelectEngineOverrideFirst(c) ==
    IF c[downloadImplKey] # Nil THEN "test"
    ELSE IF UseGoGather THEN "alternate"
    ELSE "default"

\* Lines 68-94: which engine dl ends up bound to.
SelectEngine(c) ==
    IF UseGoGather THEN "alternate"
    ELSE IF c[downloadImplKey] # Nil THEN "test"
    ELSE "default"

\* Variant: every engine is called behind dlMutex.
AfterSelectLockAll(engine) == "lock"

\* Only the closure of lines 68-76 takes dlMutex; the closures of lines 79-85
\* and 87-93 call their engine directly.
AfterSelect(engine) == IF engine = "default" THEN "lock" ELSE "invoke"

Select(p) ==
    /\ pc[p] = "select"
    /\ dl' = [dl EXCEPT ![p] = SelectEngine(ctx[p])]
    /\ pc' = [pc EXCEPT ![p] = AfterSelect(SelectEngine(ctx[p]))]
    /\ UNCHANGED <<sourceUrl, destDir, ctx, out, ret, log, dlMutex, env, curl, verdict>>

\* The arguments each engine is invoked with.
\* downloader.Download(ctx, destDir, []string{sourceUrl}) (line 75),
\* gatherFunc(ctx, sourceUrl, destDir) (line 80),
\* d.Download(ctx, destDir, []string{sourceUrl}) (line 88).
EngineArgs(engine, dir, u) ==
    IF engine = "alternate" THEN <<u, dir>> ELSE <<dir, <<u>>>>

Invocation(engine, dir, u) == [op |-> engine, args |-> EngineArgs(engine, dir, u)]
LockOp == [op |-> "Lock", args |-> <<>>]
UnlockOp == [op |-> "Unlock", args |-> <<>>]

\* Variant: Lock returns whether or not the mutex is held.
MutexNeverBlocks == TRUE

\* sync.Mutex.Lock: proceeds only when the mutex is unlocked.
MutexFree == dlMutex = 0

\* Variant: the closure enters conftest's downloader without locking.
LockForgotten(p) ==
    /\ pc[p] = "lock"
    /\ log' = [log EXCEPT ![p] = Append(log[p], Invocation("default", destDir[p], sourceUrl[p]))]
    /\ pc' = [pc EXCEPT ![p] = "engine"]
    /\ UNCHANGED <<sourceUrl, destDir, ctx, dl, out, ret, dlMutex, env, curl, verdict>>

\* Lines 73-75: dlMutex.Lock(), then conftest's downloader is entered.
Lock(p) ==
    /\ pc[p] = "lock"
    /\ MutexFree
    /\ dlMutex' = p
    /\ log' = [log EXCEPT ![p] = log[p] \o <<LockOp, Invocation("default", destDir[p], sourceUrl[p])>>]
    /\ pc' = [pc EXCEPT ![p] = "engine"]
    /\ UNCHANGED <<sourceUrl, destDir, ctx, dl, out, ret, env, curl, verdict>>

\* Lines 80 and 88: gatherFunc or the context's downloadImpl is entered.
Invoke(p) ==
    /\ pc[p] = "invoke"
    /\ log' = [log EXCEPT ![p] = Append(log[p], Invocation(dl[p], destDir[p], sourceUrl[p]))]
    /\ pc' = [pc EXCEPT ![p] = "engine"]
    /\ UNCHANGED <<sourceUrl, destDir, ctx, dl, out, ret, dlMutex, env, curl, verdict>>

\* What an engine can produce: only go-gather yields metadata.
EngineOutcomes(engine) ==
    {[m |-> m, err |-> e, panic |-> FALSE] :
        m \in (IF engine = "alternate" THEN {Nil, Meta} ELSE {Nil}),
        e \in {NilErr, EngineErr}}
    \cup {[m |-> Nil, err |-> NilErr, panic |-> TRUE]}

\* Variant: the engine's error is wrapped before it is returned.
ResultWrapped(engine, o) ==
    [m |-> IF engine = "alternate" THEN o.m ELSE Nil,
     err |-> IF o.err = NilErr THEN NilErr ELSE <<"download failed: ">> \o o.err]

\* What the closure hands back (lines 75, 84, 92) and Download returns
\* (line 102): go-gather's metadata is passed on, the other two engines give
\* nil metadata; the error is the engine's own.
Result(engine, o) ==
    [m |-> IF engine = "alternate" THEN o.m ELSE Nil, err |-> o.err]

\* Variant: a failed call goes back to engine selection and tries again.
AfterCallRetry(engine, o) == IF o.err # NilErr THEN "select" ELSE "done"

\* Lines 96-102: m, err := dl(...); an error is logged and returned, never
\* retried.
AfterCall(engine, o) == "done"

\* Variant: Unlock written as a plain statement after the engine call, not
\* deferred, so a panic skips it.
AfterEngineNoDefer(engine, o) ==
    IF o.panic THEN "panicked"
    ELSE IF engine = "default" THEN "unlock" ELSE AfterCall(engine, o)

\* Where a call is once its engine has come back: the deferred Unlock of
\* line 74 is pending for the default engine on every outcome; the other
\* closures return to line 96, or unwind.
AfterEngine(engine, o) ==
    IF engine = "default" THEN "unlock"
    ELSE IF o.panic THEN "panicked" ELSE AfterCall(engine, o)

\* Download's results once the call is at position `next`.
Returned(p, next, o) ==
    IF next = "done" THEN [ret EXCEPT ![p] = Result(dl[p], o)] ELSE ret

\* The engine invocation comes back, with a result or a panic; the go-gather
\* and downloadImpl closures then return and Download returns (lines 84, 92,
\* 96-102).
EngineReturn(p, o) ==
    /\ pc[p] = "engine"
    /\ o \in EngineOutcomes(dl[p])
    /\ out' = [out EXCEPT ![p] = o]
    /\ pc' = [pc EXCEPT ![p] = AfterEngine(dl[p], o)]
    /\ ret' = Returned(p, AfterEngine(dl[p], o), o)
    /\ UNCHANGED <<sourceUrl, destDir, ctx, dl, log, dlMutex, env, curl, verdict>>

\* After the deferred Unlock the closure returns to line 96, or unwinds.
AfterUnlock(o) == IF o.panic THEN "panicked" ELSE AfterCall("default", o)

\* Variant: the closure returns without unlocking.
UnlockForgotten(p) ==
    /\ pc[p] = "unlock"
    /\ pc' = [pc EXCEPT ![p] = AfterUnlock(out[p])]
    /\ ret' = Returned(p, AfterUnlock(out[p]), out[p])
    /\ UNCHANGED <<sourceUrl, destDir, ctx, dl, out, log, dlMutex, env, curl, verdict>>

\* Line 74: defer dlMutex.Unlock(), run when the closure returns or unwinds;
\* then Download returns (lines 96-102).
Unlock(p) ==
    /\ pc[p] = "unlock"
    /\ dlMutex' = 0
    /\ log' = [log EXCEPT ![p] = Append(log[p], UnlockOp)]
    /\ pc' = [pc EXCEPT ![p] = AfterUnlock(out[p])]
    /\ ret' = Returned(p, AfterUnlock(out[p]), out[p])
    /\ UNCHANGED <<sourceUrl, destDir, ctx, dl, out, env, curl, verdict>>

\* The caller takes the result (or recovers from the panic) and is ready
\* for its next call.
Finish(p) ==
    /\ pc[p] \in {"done", "panicked"}
    /\ pc' = [pc EXCEPT ![p] = "idle"]
    /\ sourceUrl' = [sourceUrl EXCEPT ![p] = <<>>]
    /\ destDir' = [destDir EXCEPT ![p] = <<>>]
    /\ ctx' = [ctx EXCEPT ![p] = ContextTODO]
    /\ dl' = [dl EXCEPT ![p] = "none"]
    /\ out' = [out EXCEPT ![p] = NoOut]
    /\ ret' = [ret EXCEPT ![p] = NoRet]
    /\ log' = [log EXCEPT ![p] = <<>>]
    /\ UNCHANGED <<dlMutex, env, curl, verdict>>

\* t.Setenv("USEGOGATHER", "1") / os.Unsetenv("USEGOGATHER")
Setenv(v) ==
    /\ v \in EnvValues
    /\ v # env
    /\ env' = v
    /\ UNCHANGED <<pc, sourceUrl, destDir, ctx, dl, out, ret, log, dlMutex, curl, verdict>>

Next ==
    \/ \E p \in Callers, c \in Contexts, dir \in DestDirs, u \in SourceUrls :
          Download(p, c, dir, u)
    \/ \E p \in Callers : Select(p)
    \/ \E p \in Callers : Lock(p)
    \/ \E p \in Callers : Invoke(p)
    \/ \E p \in Callers : \E o \in EngineOutcomes(dl[p]) : EngineReturn(p, o)
    \/ \E p \in Callers : Unlock(p)
    \/ \E p \in Callers : Finish(p)
    \/ \E v \in EnvValues : Setenv(v)

Spec == Init /\ [][Next]_vars

\* ------------------------------------------------------------ classifier run
\* isSecure applied to one URL drawn from ClassifierUrls.
InitClassify ==
    /\ pc = [p \in Callers |-> "idle"]
    /\ sourceUrl = [p \in Callers |-> <<>>]
    /\ destDir = [p \in Callers |-> <<>>]
    /\ ctx = [p \in Callers |-> ContextTODO]
    /\ dl = [p \in Callers |-> "none"]
    /\ out = [p \in Callers |-> NoOut]
    /\ ret = [p \in Callers |-> NoRet]
    /\ log = [p \in Callers |-> <<>>]
    /\ dlMutex = 0
    /\ env = ""
    /\ curl \in ClassifierUrls
    /\ verdict = "none"

Classify ==
    /\ verdict = "none"
    /\ verdict' = IF isSecure(curl) THEN "secure" ELSE "insecure"
    /\ UNCHANGED <<callVars, curl>>

NextClassify == Classify

SpecClassify == InitClassify /\ [][NextClassify]_vars

\* ------------------------------------------------------------ fairness
\* Goroutines are scheduled fairly and an engine invocation comes back.
\* sync.Mutex hands the lock to a waiter that has waited long enough
\* (starvation mode), so a waiter that is enabled again and again gets it.
Fairness ==
    \A p \in Callers :
        /\ SF_vars(Lock(p))
        /\ WF_vars(\E o \in EngineOutcomes(dl[p]) : EngineReturn(p, o))
        /\ WF_vars(Unlock(p))

FairSpec == Init /\ [][Next]_vars /\ Fairness

\* ------------------------------------------------------------ properties
\* Helpers of the statements below.
InCall(p) == pc[p] # "idle"
HasOverride(p) == ctx[p][downloadImplKey] = mockDownloader
EngineOps == {"default", "alternate", "test"}
\* The engine invocations a call has made so far.
Invocations(p) == SelectSeq(log[p], LAMBDA e : e.op \in EngineOps)
LockOps(p) == SelectSeq(log[p], LAMBDA e : e.op = "Lock")
\* Callers inside an engine invocation right now.
InFlight == {p \in Callers : pc[p] = "engine"}
InDefaultEngine == {p \in InFlight : dl[p] = "default"}

\* C1: a Download of a URL that isSecure classifies as insecure returns nil
\* metadata and the error "attempting to download from insecure source:
\* <sourceUrl>", invokes no engine and never takes dlMutex, whatever the
\* USEGOGATHER switch and the context's override are.
C1_InsecureRejected ==
    \A p \in Callers :
        (InCall(p) /\ ~isSecure(sourceUrl[p])) =>
            /\ pc[p] = "done"
            /\ ret[p].m = Nil
            /\ ret[p].err = <<"attempting to download from insecure source: ">> \o sourceUrl[p]
            /\ log[p] = <<>>
            /\ dl[p] = "none"
            /\ dlMutex # p

\* A wrapped-http URL was rejected with the switch on and an override
\* attached, while another caller holds the lock.
C1_Witness ==
    \E p \in Callers :
        /\ pc[p] = "done"
        /\ sourceUrl[p] = UrlGitHttp
        /\ HasOverride(p)
        /\ env = "1"
        /\ dlMutex \notin {0, p}

\* C2: at most one caller is inside the default engine's download call at
\* any instant, however many Download calls are outstanding.
C2_DefaultEngineSerialized == Cardinality(InDefaultEngine) <= 1

\* One caller is inside the default engine while every other caller waits
\* for the lock.
C2_Witness ==
    \E p \in Callers :
        /\ p \in InDefaultEngine
        /\ \A q \in Callers \ {p} : pc[q] = "lock"

\* C3 as stated: at most one engine invocation of any kind is in flight at
\* any instant.
C3_AllEnginesSerialized == Cardinality(InFlight) <= 1

\* C3 amended: an invocation in flight is a default-engine invocation exactly
\* when its caller holds dlMutex, so two invocations in flight are never both
\* of the default engine; alternate and test invocations hold no lock.
C3_OnlyDefaultSerialized ==
    /\ \A p \in InFlight : (dl[p] = "default") <=> (dlMutex = p)
    /\ \A p, q \in InFlight : (p # q) => (dl[p] # "default" \/ dl[q] # "default")

\* Two engine invocations are in flight together, one of them behind the
\* lock.
C3_Witness ==
    \E p, q \in InFlight :
        /\ p # q
        /\ dl[p] = "default"
        /\ dl[q] \in {"alternate", "test"}

\* s begins with lit.
Begins(s, lit) ==
    /\ Len(lit) <= Len(s)
    /\ \A i \in 1..Len(lit) : s[i] = lit[i]
\* The first k characters of s are letters or digits and ::http: follows.
WrappedAfter(s, k) ==
    /\ \A i \in 1..k : s[i] \in AlnumClass
    /\ Len(s) >= k + 7
    /\ \A i \in 1..7 : s[k + i] = WrappedHttp[i]

\* C4 as stated, a run being one or more letters or digits: isSecure is false
\* exactly for the URLs that begin with http: or with a run of letters and
\* digits followed by ::http:.
C4_InsecureIffNonEmptyRun ==
    (verdict # "none") =>
        ((verdict = "insecure") <=>
            \/ Begins(curl, HttpPrefix)
            \/ \E k \in 1..Len(curl) : WrappedAfter(curl, k))

\* C4 amended: isSecure is false exactly for the URLs that begin with http:
\* or with a possibly empty run of letters and digits followed by ::http:,
\* and true for every other string.
C4_InsecureIffRun ==
    (verdict # "none") =>
        ((verdict = "insecure") <=>
            \/ Begins(curl, HttpPrefix)
            \/ \E k \in 0..Len(curl) : WrappedAfter(curl, k))

\* A wrapped plaintext-http URL has been classified insecure.
C4_Witness ==
    /\ verdict = "insecure"
    /\ curl = <<"g","3">> \o WrappedHttp \o <<"/","/","x">>

\* C5: the engine a secure Download binds follows the precedence switch,
\* then override, then default, and every engine the call invokes is the one
\* bound: with the switch on the attached test engine is not invoked.
C5_Precedence ==
    /\ [][\A p \in Callers :
            (pc[p] = "select" /\ pc'[p] # "select") =>
                dl'[p] = IF env = "1" THEN "alternate"
                         ELSE IF HasOverride(p) THEN "test"
                         ELSE "default"]_vars
    /\ [](\A p \in Callers :
            \A i \in 1..Len(Invocations(p)) : Invocations(p)[i].op = dl[p])

\* One call with an override attached went to the alternate engine, another
\* one to its test engine.
C5_Witness ==
    \E p, q \in Callers :
        /\ pc[p] = "done" /\ HasOverride(p) /\ dl[p] = "alternate"
        /\ Len(Invocations(p)) = 1
        /\ pc[q] = "done" /\ HasOverride(q) /\ dl[q] = "test"
        /\ Len(Invocations(q)) = 1

\* C6: with a test engine attached and the switch off, a secure Download
\* invokes exactly that engine, once, with (destDir, [sourceUrl]), and
\* returns nil metadata and the engine's own error value (nil on success).
C6_TestEngineResultUnchanged ==
    \A p \in Callers :
        (pc[p] = "done" /\ HasOverride(p) /\ isSecure(sourceUrl[p])
            /\ dl[p] # "alternate") =>
            /\ log[p] = <<[op |-> "test", args |-> <<destDir[p], <<sourceUrl[p]>>>>]>>
            /\ ret[p].m = Nil
            /\ ret[p].err = out[p].err

\* A call returned the failure of its test engine.
C6_Witness ==
    \E p \in Callers :
        /\ pc[p] = "done" /\ HasOverride(p) /\ dl[p] = "test"
        /\ out[p].err = EngineErr
        /\ ret[p].err = EngineErr

\* C7: dlMutex is held only inside one default-engine invocation and is
\* released on every way out of it (result, error, panic): a caller that has
\* returned or unwound does not hold it, a held lock belongs to a caller
\* still inside its default-engine closure, and a finished default call
\* locked once, invoked, and unlocked.
C7_LockScoped ==
    /\ \A p \in Callers :
          (pc[p] \notin {"engine", "unlock"}) => dlMutex # p
    /\ (dlMutex # 0) =>
          (pc[dlMutex] \in {"engine", "unlock"} /\ dl[dlMutex] = "default")
    /\ \A p \in Callers :
          (pc[p] \in {"done", "panicked"} /\ dl[p] = "default") =>
              log[p] = <<LockOp, Invocation("default", destDir[p], sourceUrl[p]), UnlockOp>>

\* Every caller is out of a default-engine call that failed or panicked, and
\* the lock is free.
C7_Witness ==
    /\ dlMutex = 0
    /\ \E p \in Callers : pc[p] = "panicked" /\ dl[p] = "default"
    /\ \E p \in Callers : pc[p] = "done" /\ dl[p] = "default" /\ ret[p].err = EngineErr

\* C8: a call that finds dlMutex held waits (it leaves the wait only by
\* taking the lock) and, under fair scheduling with engine invocations that
\* come back, gets the lock, invokes the engine and is over: returned with
\* the engine's own error, or unwound by the engine's panic.
C8_WaiterProceeds ==
    /\ \A p \in Callers :
          (pc[p] = "lock") ~>
              (/\ pc[p] \in {"done", "panicked"}
               /\ Len(LockOps(p)) = 1
               /\ Len(Invocations(p)) = 1)
    /\ [][\A p \in Callers :
            (pc[p] = "lock") => (pc'[p] = "lock" \/ (pc'[p] = "engine" /\ dlMutex' = p))]_vars
    /\ [](\A p \in Callers :
            (pc[p] = "done" /\ dl[p] = "default") =>
                (ret[p].err = out[p].err /\ ret[p].err \in {NilErr, EngineErr}))

\* A caller waits for the lock while another one is inside the default
\* engine.
C8_Witness ==
    \E p, q \in Callers :
        /\ p # q
        /\ pc[p] = "lock"
        /\ dlMutex = q
        /\ pc[q] = "engine"

\* C9: a call invokes at most one engine at most once; a secure call that
\* has returned invoked exactly one, and returns that invocation's error
\* without a retry or a fallback.
C9_SingleAttempt ==
    \A p \in Callers :
        /\ Len(Invocations(p)) <= 1
        /\ (pc[p] = "done" /\ isSecure(sourceUrl[p])) =>
              /\ Len(Invocations(p)) = 1
              /\ Invocations(p)[1].op = dl[p]
              /\ ret[p].err = out[p].err

\* A secure call returned its engine's failure after one invocation.
C9_Witness ==
    \E p \in Callers :
        /\ pc[p] = "done"
        /\ isSecure(sourceUrl[p])
        /\ ret[p].err = EngineErr
        /\ Len(Invocations(p)) = 1

\* The next step of caller p's call.
Advance(p) ==
    \/ Select(p)
    \/ Lock(p)
    \/ Invoke(p)
    \/ \E o \in EngineOutcomes(dl[p]) : EngineReturn(p, o)
    \/ Unlock(p)

\* C10: while another caller holds dlMutex, a call that is rejected as
\* insecure, that has not yet bound its engine, or that is bound to the
\* alternate or a test engine can always take its next step.
C10_OnlyLockBlocks ==
    \A p \in Callers :
        (dlMutex \notin {0, p}) =>
            /\ (pc[p] = "idle") =>
                  \A c \in Contexts, dir \in DestDirs :
                      \A u \in {x \in SourceUrls : ~isSecure(x)} :
                          ENABLED Download(p, c, dir, u)
            /\ (pc[p] = "select") => ENABLED Select(p)
            /\ (pc[p] \in {"lock", "invoke", "engine", "unlock"}
                  /\ dl[p] \in {"alternate", "test"}) => ENABLED Advance(p)

\* A test-engine call is inside its engine while another caller is inside
\* the default engine with the lock.
C10_Witness ==
    \E p, q \in Callers :
        /\ p # q
        /\ dlMutex = q
        /\ pc[q] = "engine"
        /\ pc[p] = "engine"
        /\ dl[p] = "test"

====
